---------------------------- MODULE Spec2Model ----------------------------
(***************************************************************************)
(* Model of server/scrape_countryroad.py: the Country Road catalogue       *)
(* scraper.  main() walks SUBCATEGORY_URLS in order and, per section,      *)
(* pages 1..7; scrape_page() fetches one page, reads its product cards     *)
(* one by one and upserts every fully-formed card into Firestore with      *)
(* save_product_to_firestore().                                            *)
(*                                                                         *)
(* Text is modelled as a sequence of characters (one-character strings;    *)
(* the origin of a URL is kept as one long token after its "http" chars),  *)
(* so that lower(), "in", startswith(), replace(), strip() and float() are *)
(* computed, not assumed.  Python's None is the one-token text None.       *)
(***************************************************************************)
EXTENDS Integers, Sequences, FiniteSets, TLC

(***************************************************************************)
(* Bounds of the model (not program constants).                            *)
(***************************************************************************)
\* Sections crawled by the model; the program lists 14 (lines 30-45).
NumSections == 2
\* Most product cards a fetched page holds.
MaxCards == 2
\* Last instant of the store's server clock.
MaxTime == 1
\* Most words a product name handed to map_category is made of.
MaxWords == 2

(***************************************************************************)
(* Program constants.                                                      *)
(***************************************************************************)
\* range(1, 8): the last page number tried per section.
MaxPage == 7

None == <<"<None>">>

\* Python truthiness of an optional text: None and '' are falsy.
Truthy(x) == x # None /\ x # <<>>

(***************************************************************************)
(* Text helpers: str.lower, "kw in s", str.startswith, str.replace,        *)
(* str.strip.                                                              *)
(***************************************************************************)
LowerChar(c) ==
    CASE c = "A" -> "a" [] c = "B" -> "b" [] c = "C" -> "c" [] c = "D" -> "d"
      [] c = "E" -> "e" [] c = "F" -> "f" [] c = "G" -> "g" [] c = "H" -> "h"
      [] c = "I" -> "i" [] c = "J" -> "j" [] c = "K" -> "k" [] c = "L" -> "l"
      [] c = "M" -> "m" [] c = "N" -> "n" [] c = "O" -> "o" [] c = "P" -> "p"
      [] c = "Q" -> "q" [] c = "R" -> "r" [] c = "S" -> "s" [] c = "T" -> "t"
      [] c = "U" -> "u" [] c = "V" -> "v" [] c = "W" -> "w" [] c = "X" -> "x"
      [] c = "Y" -> "y" [] c = "Z" -> "z" [] OTHER -> c

lower(s) == [i \in 1..Len(s) |-> LowerChar(s[i])]

startswith(s, prefix) ==
    Len(s) >= Len(prefix) /\ SubSeq(s, 1, Len(prefix)) = prefix

\* kw in s
Contains(kw, s) ==
    \E i \in 0..(Len(s) - Len(kw)) : SubSeq(s, i + 1, i + Len(kw)) = kw

RECURSIVE replace(_, _)
\* s.replace(pat, ''): every non-overlapping occurrence, left to right.
replace(s, pat) ==
    IF Len(s) < Len(pat) \/ Len(pat) = 0 THEN s
    ELSE IF startswith(s, pat)
         THEN replace(SubSeq(s, Len(pat) + 1, Len(s)), pat)
         ELSE <<s[1]>> \o replace(Tail(s), pat)

RECURSIVE lstrip(_)
lstrip(s) == IF s # <<>> /\ s[1] = " " THEN lstrip(Tail(s)) ELSE s

RECURSIVE rstrip(_)
rstrip(s) ==
    IF s # <<>> /\ s[Len(s)] = " " THEN rstrip(SubSeq(s, 1, Len(s) - 1)) ELSE s

strip(s) == rstrip(lstrip(s))

(***************************************************************************)
(* float(text) on the texts the model draws: an optional sign, digits and  *)
(* at most one decimal point with at least one digit; anything else is a   *)
(* ValueError.  The value num / 10^scale is kept exactly, with the         *)
(* fraction's trailing zeros dropped so that equal numbers are equal.      *)
(***************************************************************************)
Digits == {"0", "1", "2", "3", "4", "5", "6", "7", "8", "9"}

DigitVal(c) ==
    CASE c = "0" -> 0 [] c = "1" -> 1 [] c = "2" -> 2 [] c = "3" -> 3
      [] c = "4" -> 4 [] c = "5" -> 5 [] c = "6" -> 6 [] c = "7" -> 7
      [] c = "8" -> 8 [] c = "9" -> 9

RECURSIVE DigitsToInt(_)
DigitsToInt(s) ==
    IF s = <<>> THEN 0
    ELSE 10 * DigitsToInt(SubSeq(s, 1, Len(s) - 1)) + DigitVal(s[Len(s)])

RECURSIVE DropTrailingZeros(_)
DropTrailingZeros(s) ==
    IF s # <<>> /\ s[Len(s)] = "0"
    THEN DropTrailingZeros(SubSeq(s, 1, Len(s) - 1))
    ELSE s

AllDigits(s) == \A i \in 1..Len(s) : s[i] \in Digits

\* The value meaning "price is None".
NoPrice == [none |-> TRUE, num |-> 0, scale |-> 0]

ValueError == [error |-> TRUE, value |-> NoPrice]

float(text) ==
    LET neg  == text # <<>> /\ text[1] = "-"
        body == IF text # <<>> /\ text[1] \in {"-", "+"} THEN Tail(text) ELSE text
        dots == {i \in 1..Len(body) : body[i] = "."}
        dot  == IF dots = {} THEN Len(body) + 1 ELSE CHOOSE i \in dots : TRUE
        ip   == SubSeq(body, 1, dot - 1)
        fp   == DropTrailingZeros(SubSeq(body, dot + 1, Len(body)))
        mag  == DigitsToInt(ip \o fp)
    IN  IF Cardinality(dots) > 1
           \/ ~AllDigits(ip) \/ ~AllDigits(SubSeq(body, dot + 1, Len(body)))
           \/ Len(body) - Cardinality(dots) = 0
        THEN ValueError
        ELSE [error |-> FALSE,
              value |-> [none |-> FALSE,
                         num |-> IF neg THEN 0 - mag ELSE mag,
                         scale |-> Len(fp)]]

\* float(price_text.replace('NZD', '').replace('$', '').replace(',', '').strip())
parse_price(price_text) ==
    float(strip(replace(replace(replace(price_text, <<"N", "Z", "D">>),
                                <<"$">>), <<",">>)))

(***************************************************************************)
(* CATEGORY_KEYWORDS, in declaration order, and map_category.              *)
(***************************************************************************)
CATEGORY_KEYWORDS == <<
    [category |-> "tops", keywords |-> <<
        <<"s","h","i","r","t">>,
        <<"t","-","s","h","i","r","t">>,
        <<"t","e","e">>,
        <<"p","o","l","o">>,
        <<"k","n","i","t">>,
        <<"s","w","e","a","t">>,
        <<"j","u","m","p","e","r">>,
        <<"c","r","e","w">>,
        <<"h","e","n","l","e","y">>,
        <<"s","i","n","g","l","e","t">>,
        <<"t","a","n","k">>,
        <<"t","o","p">>
    >>],
    [category |-> "bottoms", keywords |-> <<
        <<"p","a","n","t">>,
        <<"p","a","n","t","s">>,
        <<"j","e","a","n">>,
        <<"s","h","o","r","t">>,
        <<"t","r","o","u","s","e","r">>,
        <<"c","h","i","n","o">>,
        <<"t","r","a","c","k">>,
        <<"j","o","g","g","e","r">>,
        <<"s","u","i","t">>
    >>],
    [category |-> "shoes", keywords |-> <<
        <<"s","h","o","e">>,
        <<"s","n","e","a","k","e","r">>,
        <<"b","o","o","t">>,
        <<"l","o","a","f","e","r">>,
        <<"s","l","i","d","e">>,
        <<"t","h","o","n","g">>
    >>],
    [category |-> "outerwear", keywords |-> <<
        <<"j","a","c","k","e","t">>,
        <<"c","o","a","t">>,
        <<"b","l","a","z","e","r">>,
        <<"o","v","e","r","s","h","i","r","t">>,
        <<"d","u","f","f","l","e">>
    >>],
    [category |-> "accessories", keywords |-> <<
        <<"b","e","l","t">>,
        <<"b","a","g">>,
        <<"d","u","f","f","l","e">>,
        <<"w","a","l","l","e","t">>,
        <<"t","i","e">>,
        <<"s","o","c","k">>,
        <<"s","c","a","r","f">>,
        <<"h","a","t">>
    >>]
>>

\* The entry's keyword list has a keyword that occurs in name_lower.
KeywordHit(entry, name_lower) ==
    \E k \in 1..Len(entry.keywords) : Contains(entry.keywords[k], name_lower)

\* The table searched from its last category to its first.
map_category_last(name) ==
    LET name_lower == lower(name)
        hits == {c \in 1..Len(CATEGORY_KEYWORDS) :
                    KeywordHit(CATEGORY_KEYWORDS[c], name_lower)}
    IN  IF hits = {} THEN "tops"
        ELSE CATEGORY_KEYWORDS[CHOOSE c \in hits : \A d \in hits : c >= d].category

map_category(name) ==
    LET name_lower == lower(name)
        hits == {c \in 1..Len(CATEGORY_KEYWORDS) :
                    KeywordHit(CATEGORY_KEYWORDS[c], name_lower)}
    IN  IF hits = {} THEN "tops"
        ELSE CATEGORY_KEYWORDS[CHOOSE c \in hits : \A d \in hits : c <= d].category


(***************************************************************************)
(* The catalogue store: collection 'retailer_products' as a function from  *)
(* document id to document, a document being a function from field path   *)
(* to value.  Firestore's set(..., merge=True) writes the leaf fields of   *)
(* the data (a nested map contributes its leaves, 'retailer.id' and        *)
(* 'retailer.name'), leaves every other stored field alone, and resolves   *)
(* the SERVER_TIMESTAMP sentinel to the server's time of the write.        *)
(***************************************************************************)
BASE == <<"h", "t", "t", "p", "s", "://www.countryroad.co.nz">>

SERVER_TIMESTAMP == "SERVER_TIMESTAMP"

\* hashlib.md5(s.encode()).hexdigest() on the URLs the model draws.
md5(s) ==
    CASE s = BASE \o <<"/p1">> -> "3b9438aee4fd73d403c8c075dc78be57"
      [] s = BASE \o <<"/p2">> -> "4bde19295fca0d93c180e38344581531"
      [] s = <<"/p1">>         -> "114d202f5f32586ea94a0e8e23257057"
      [] s = <<"/p2">>         -> "ffc6fee3af2e181c6c628a085a3410d5"
      [] s = BASE \o <<"/i1.jpg">> -> "d818d43a4ca7f2ed5b840547c59a01b2"
      [] s = BASE \o <<"/i2.jpg">> -> "7f797f4e7b3f0c9aa2470f5aa8b96452"

\* The leaf field paths of a product dict and their values.
Flatten(product) ==
    LET top == DOMAIN product \ {"retailer"}
        sub == IF "retailer" \in DOMAIN product
               THEN {"retailer.id", "retailer.name"} ELSE {}
    IN  [p \in top \cup sub |->
            CASE p = "retailer.id"   -> product["retailer"].id
              [] p = "retailer.name" -> product["retailer"].name
              [] OTHER               -> product[p]]

\* set(data) without merge=True: the document is replaced by the data.
SetNoMerge(store, doc_id, data, t) ==
    LET fields == Flatten(data)
        doc    == [p \in DOMAIN fields |->
                      IF p = "scrapedAt" THEN t ELSE fields[p]]
    IN  [d \in DOMAIN store \cup {doc_id} |->
            IF d = doc_id THEN doc ELSE store[d]]

\* document(doc_id).set(data, merge=True), served at server time t.
MergeSet(store, doc_id, data, t) ==
    LET old    == IF doc_id \in DOMAIN store THEN store[doc_id] ELSE << >>
        fields == Flatten(data)
        merged == [p \in DOMAIN old \cup DOMAIN fields |->
                      IF p \in DOMAIN fields
                      THEN IF p = "scrapedAt" THEN t ELSE fields[p]
                      ELSE old[p]]
    IN  [d \in DOMAIN store \cup {doc_id} |->
            IF d = doc_id THEN merged ELSE store[d]]

\* The document id taken from the image URL instead of the product URL.
save_keyed_by_image(store, product, t) ==
    LET doc_id == IF "imageUrl" \in DOMAIN product
                  THEN md5(product["imageUrl"])
                  ELSE md5(product["productUrl"])
    IN  MergeSet(store, doc_id, product, t)

\* Every write stored under a fresh document id, as add() would.
save_under_new_id(store, product, t) ==
    LET n      == Cardinality(DOMAIN store)
        doc_id == CASE n = 0 -> "auto0"
                    [] n = 1 -> "auto1"
                    [] n = 2 -> "auto2"
                    [] OTHER -> "auto3"
    IN  MergeSet(store, doc_id, product, t)

\* The store after save_product_to_firestore(product) returns normally.
save_product_to_firestore(store, product, t) ==
    LET doc_id == md5(product["productUrl"])
    IN  MergeSet(store, doc_id, product, t)

(***************************************************************************)
(* One product card of a fetched page, as the parser shows it to           *)
(* scrape_page: the stripped text of its first h2/a (None without one),    *)
(* the href of its first anchor, the src of its first img, the stripped    *)
(* text of its span.value, and whether the parser raises on it.            *)
(***************************************************************************)
ChinoPant == <<"C","h","i","n","o"," ","P","a","n","t">>
DuffleCoat == <<"D","u","f","f","l","e"," ","C","o","a","t">>
Tee == <<"T","e","e">>

Card(name, href, src, price_text, raises) ==
    [name |-> name, href |-> href, src |-> src, price_text |-> price_text,
     raises |-> raises]

Cards == {
    \* the same product, linked relatively and absolutely
    Card(ChinoPant, <<"/p1">>, <<"/i1.jpg">>, <<"$","5","9",".","9","0">>, FALSE),
    Card(ChinoPant, BASE \o <<"/p1">>, BASE \o <<"/i1.jpg">>,
         <<"$","5","9",".","9","0">>, FALSE),
    Card(DuffleCoat, <<"/p2">>, <<"/i2.jpg">>,
         <<"N","Z","D"," ","1",",","2","9","9">>, FALSE),
    \* a price text that parses to a negative number
    Card(Tee, <<"/p2">>, <<"/i2.jpg">>, <<"-","$","5">>, FALSE),
    \* no name, no link, no image, no price element
    Card(None, <<"/p1">>, <<"/i1.jpg">>, <<"$","5","9",".","9","0">>, FALSE),
    Card(ChinoPant, None, <<"/i1.jpg">>, <<"$","5","9",".","9","0">>, FALSE),
    Card(ChinoPant, <<"/p1">>, None, <<"$","5","9",".","9","0">>, FALSE),
    Card(ChinoPant, <<"/p1">>, <<"/i1.jpg">>, None, FALSE),
    \* price texts float() rejects
    Card(ChinoPant, <<"/p1">>, <<"/i1.jpg">>, <<"P","O","A">>, FALSE),
    Card(DuffleCoat, <<"/p2">>, <<"/i2.jpg">>, <<"$">>, FALSE),
    \* the parser raises inside the try block
    Card(ChinoPant, <<"/p1">>, <<"/i1.jpg">>, <<"$","5","9",".","9","0">>, TRUE)
}

\* url if it is falsy or starts with 'http', else the site origin + url.
absolute(url) ==
    IF Truthy(url) /\ ~startswith(url, <<"h", "t", "t", "p">>)
    THEN BASE \o url
    ELSE url

\* The product dict built without its 'color' entry.
Product_without_color(name, price, image_url, product_url, category, color) ==
    [name |-> name,
     brand |-> "Country Road",
     price |-> price,
     imageUrl |-> image_url,
     productUrl |-> product_url,
     category |-> category,
     retailer |-> [id |-> "countryroad", name |-> "Country Road"],
     scrapedAt |-> SERVER_TIMESTAMP]

\* The product dict built at lines 91-101.
Product(name, price, image_url, product_url, category, color) ==
    [name |-> name,
     brand |-> "Country Road",
     price |-> price,
     imageUrl |-> image_url,
     productUrl |-> product_url,
     category |-> category,
     color |-> color,
     retailer |-> [id |-> "countryroad", name |-> "Country Road"],
     scrapedAt |-> SERVER_TIMESTAMP]

\* Line 90 without its price test.
fully_formed_no_price(name, product_url, image_url, price) ==
    Truthy(name) /\ Truthy(product_url) /\ Truthy(image_url)

\* The condition of line 90.
fully_formed(name, product_url, image_url, price) ==
    Truthy(name) /\ Truthy(product_url) /\ Truthy(image_url) /\ ~price.none

\* Lines 75-101 on one card: "raise" when an exception leaves the try body
\* before the save, "skip" when the condition of line 90 is false, "save"
\* with the product to write otherwise.
extract(card) ==
    LET name        == card.name
        product_url == absolute(card.href)
        image_url   == absolute(card.src)
        parsed      == IF Truthy(card.price_text)
                       THEN parse_price(card.price_text)
                       ELSE [error |-> FALSE, value |-> NoPrice]
        price       == parsed.value
        category    == IF Truthy(name) THEN map_category(name) ELSE "tops"
        color       == ""
    IN  IF card.raises \/ parsed.error
        THEN [kind |-> "raise"]
        ELSE IF fully_formed(name, product_url, image_url, price)
        THEN [kind |-> "save",
              product |-> Product(name, price, image_url, product_url,
                                  category, color)]
        ELSE [kind |-> "skip"]


\* extract and Malformed, tabulated over the cards of the model.
CardOutcome == [c \in Cards |-> extract(c)]

(***************************************************************************)
(* State.                                                                  *)
(*   pc              where main() stands: "fetch" (line 114, about to call *)
(*                   scrape_page), "cards" (the loop of line 73), "decide" *)
(*                   (line 115), "sleep" (line 119), "report" (line 120),  *)
(*                   "done"; "upsert" when save_product_to_firestore is    *)
(*                   exercised on its own                                  *)
(*   sec, page       index into SUBCATEGORY_URLS and page_num              *)
(*   products_found, num_scraped, total_products   the code's counters     *)
(*   reported        the total printed by line 120 (-1 before it)          *)
(*   db, now         the store and its server clock                        *)
(* History, read by the properties only:                                   *)
(*   writes          store writes that completed so far                    *)
(*   section_state   per section: pending, running or done                 *)
(*   last_end        how the section finished last was left: "exhausted"   *)
(*                   (by a zero-yield page) or "capped" (after page 7);    *)
(*                   "none" before any section is finished                 *)
(*   fetch_ok, page_cards, page_malformed, page_writes, page_wfail         *)
(*                   the page being processed: whether its fetch           *)
(*                   succeeded, the cards the loop has read from it, the   *)
(*                   malformed ones among them, the store writes completed *)
(*                   for it and whether a store write failed on it         *)
(*   sec_fetches     fetches issued for the current section                *)
(*   sec_wfail       whether a store write of the current section failed   *)
(*   sec_unsent      well-formed cards of the current section for which    *)
(*                   no store write was issued                             *)
(*   sec_spurious    store writes of the current section issued for a      *)
(*                   malformed card                                        *)
(*   up_prev, up_rec, up_ok, up_time, up_repeat                            *)
(*                   the last call of save_product_to_firestore made on    *)
(*                   its own: the store before it, its argument, whether   *)
(*                   it completed, the server's time when it was served,   *)
(*                   and whether the write before it into the same         *)
(*                   document was of the same record                       *)
(*   last_rec        per document id, the record last written into it      *)
(*   paused          whether time.sleep(2) was taken since the last fetch  *)
(*   written         the product URLs of the store writes completed so far *)
(*   rewritten       whether a store write was made for a URL that had     *)
(*                   been written before in the run                        *)
(* map_category exercised on its own:                                      *)
(*   cls_name        the name handed to map_category                       *)
(*   cls_result      what it returned ("" before the call)                 *)
(***************************************************************************)
VARIABLES pc, sec, page, products_found, num_scraped,
          total_products, reported, db, now,
          writes, section_state, last_end,
          fetch_ok, page_cards, page_malformed, page_writes, page_wfail,
          sec_fetches, sec_wfail, sec_unsent, sec_spurious,
          up_prev, up_rec, up_ok, up_time, up_repeat, last_rec,
          paused, written, rewritten, cls_name, cls_result

vars == <<pc, sec, page, products_found, num_scraped,
          total_products, reported, db, now,
          writes, section_state, last_end,
          fetch_ok, page_cards, page_malformed, page_writes, page_wfail,
          sec_fetches, sec_wfail, sec_unsent, sec_spurious,
          up_prev, up_rec, up_ok, up_time, up_repeat, last_rec,
          paused, written, rewritten, cls_name, cls_result>>

pagehist == <<fetch_ok, page_cards, page_malformed, page_writes, page_wfail>>
sechist  == <<sec_fetches, sec_wfail, sec_unsent, sec_spurious>>
uphist   == <<up_prev, up_rec, up_ok, up_time, up_repeat, last_rec>>
dochist  == <<written, rewritten>>
classvars == <<cls_name, cls_result>>

SUBCATEGORY_URLS == 1..NumSections

\* A document stored before the run: product /p1, enriched with a colour
\* and a field the scraper never sends.
StoredP1 ==
    Flatten([name |-> ChinoPant, brand |-> "Country Road",
             price |-> [none |-> FALSE, num |-> 65, scale |-> 0],
             imageUrl |-> BASE \o <<"/i1.jpg">>,
             productUrl |-> BASE \o <<"/p1">>,
             category |-> "bottoms", color |-> "navy",
             retailer |-> [id |-> "countryroad", name |-> "Country Road"],
             scrapedAt |-> 0, likes |-> 3])

InitialStore == (md5(BASE \o <<"/p1">>) :> StoredP1)

\* A card with one of the defects the extractor isolates: a missing name,
\* link, image or price element, a price text float() rejects, or a card
\* the parser raises on.  Stated on the card, not on the extractor's path.
Malformed(card) ==
    \/ card.raises
    \/ ~Truthy(card.name)
    \/ ~Truthy(card.href)
    \/ ~Truthy(card.src)
    \/ ~Truthy(card.price_text)
    \/ parse_price(card.price_text).error

MalformedCards == {c \in Cards : Malformed(c)}

NoRecord == << >>

Init ==
    /\ pc = "fetch"
    /\ sec = 1
    /\ page = 1
    /\ products_found = 0
    /\ num_scraped = 0
    /\ total_products = 0
    /\ reported = -1
    /\ db = InitialStore
    /\ now = 0
    /\ writes = 0
    /\ section_state = [s \in SUBCATEGORY_URLS |-> "pending"]
    /\ last_end = "none"
    /\ fetch_ok = FALSE
    /\ page_cards = 0
    /\ page_malformed = 0
    /\ page_writes = 0
    /\ page_wfail = FALSE
    /\ sec_fetches = 0
    /\ sec_wfail = FALSE
    /\ sec_unsent = 0
    /\ sec_spurious = 0
    /\ up_prev = << >>
    /\ up_rec = NoRecord
    /\ up_ok = FALSE
    /\ up_time = 0
    /\ up_repeat = FALSE
    /\ last_rec = << >>
    /\ paused = FALSE
    /\ written = {}
    /\ rewritten = FALSE
    /\ cls_name = << >>
    /\ cls_result = ""

\* History of a call to scrape_page(url, page_number).
NoteFetch(ok) ==
    /\ fetch_ok' = ok
    /\ page_cards' = 0
    /\ page_malformed' = 0
    /\ page_writes' = 0
    /\ page_wfail' = FALSE
    /\ sec_fetches' = sec_fetches + 1
    /\ section_state' = [section_state EXCEPT ![sec] = "running"]
    /\ paused' = FALSE
    /\ UNCHANGED <<sec_wfail, sec_unsent, sec_spurious, writes, last_end>>

\* A failed fetch tried again: the controller stays on the page.
FetchRetries ==
    /\ pc = "fetch"
    /\ num_scraped' = 0
    /\ pc' = "fetch"
    /\ NoteFetch(FALSE)
    /\ UNCHANGED <<sec, page, products_found, total_products,
                   reported, db, now, uphist, dochist, classvars>>

\* Lines 65-70: requests.get raises (timeout, connection error) or
\* raise_for_status raises (non-2xx): scrape_page returns 0.
FetchFails ==
    /\ pc = "fetch"
    /\ num_scraped' = 0
    /\ pc' = "decide"
    /\ NoteFetch(FALSE)
    /\ UNCHANGED <<sec, page, products_found, total_products,
                   reported, db, now, uphist, dochist, classvars>>

\* Lines 65-73: the fetch succeeds and the loop over the product cards of
\* the markup starts.
FetchOk ==
    /\ pc = "fetch"
    /\ products_found' = 0
    /\ pc' = "cards"
    /\ NoteFetch(TRUE)
    /\ UNCHANGED <<sec, page, num_scraped, total_products, reported, db, now,
                   uphist, dochist, classvars>>

\* No handler: the exception leaves scrape_page and main.
except_propagates ==
    /\ pc' = "crashed"
    /\ UNCHANGED <<products_found, db, writes, page_writes, dochist>>

\* The card is counted although its write did not complete.
except_counts ==
    /\ pc' = "cards"
    /\ products_found' = products_found + 1
    /\ UNCHANGED <<db, writes, page_writes, dochist>>

\* Lines 104-105: an exception raised in the try body is printed and the
\* loop goes on with the next card.
except_Exception ==
    /\ pc' = "cards"
    /\ UNCHANGED <<products_found, db, writes, page_writes, dochist>>

\* Lines 102-103, the write completing.
SaveSucceeds(product) ==
    /\ db' = save_product_to_firestore(db, product, now)
    /\ products_found' = products_found + 1
    /\ writes' = writes + 1
    /\ page_writes' = page_writes + 1
    /\ written' = written \cup {product["productUrl"]}
    /\ rewritten' = (rewritten \/ product["productUrl"] \in written)
    /\ pc' = "cards"

\* Line 90 false: nothing is written or counted.
SkipCard ==
    /\ pc' = "cards"
    /\ UNCHANGED <<products_found, db, writes, page_writes, dochist>>

\* One iteration of the loop of line 73: find_all has a next card.  The
\* cards of the markup (at most MaxCards) are drawn as the loop reaches
\* them: scrape_page reads each card once, in order, and nothing it does
\* depends on a later card.  write_ok says whether the store accepts the
\* write.
ProcessCard(card, write_ok) ==
    /\ pc = "cards"
    /\ page_cards < MaxCards
    /\ page_cards' = page_cards + 1
    /\ LET r == CardOutcome[card]
           sent == r.kind = "save"
       IN  /\ CASE r.kind = "raise" -> except_Exception
                [] r.kind = "skip"  -> SkipCard
                [] r.kind = "save"  ->
                     IF write_ok THEN SaveSucceeds(r.product)
                     ELSE except_Exception
           /\ page_wfail' = (page_wfail \/ (sent /\ ~write_ok))
           /\ sec_wfail' = (sec_wfail \/ (sent /\ ~write_ok))
           /\ sec_unsent' = IF card \notin MalformedCards /\ ~sent
                            THEN sec_unsent + 1 ELSE sec_unsent
           /\ sec_spurious' = IF card \in MalformedCards /\ sent
                              THEN sec_spurious + 1 ELSE sec_spurious
    /\ page_malformed' = IF card \in MalformedCards
                         THEN page_malformed + 1 ELSE page_malformed
    /\ UNCHANGED <<sec, page, num_scraped, total_products, reported, now,
                   section_state, last_end, fetch_ok, sec_fetches, uphist,
                   paused, classvars>>

\* Lines 106-107: find_all has no further card, the loop is over and
\* scrape_page returns products_found (its local products_found is gone).
ReturnPage ==
    /\ pc = "cards"
    /\ num_scraped' = products_found
    /\ products_found' = 0
    /\ pc' = "decide"
    /\ UNCHANGED <<sec, page, total_products,
                   reported, db, now, writes, section_state, last_end>>
    /\ UNCHANGED <<pagehist, sechist, uphist, paused, dochist, classvars>>

\* The for loop of line 111 takes the next section, or ends.
NextSection(how) ==
    /\ section_state' = [section_state EXCEPT ![sec] = "done"]
    /\ last_end' = how
    /\ sec' = sec + 1
    /\ page' = 1
    /\ pc' = IF sec < NumSections THEN "fetch" ELSE "report"
    /\ sec_fetches' = 0
    /\ sec_wfail' = FALSE
    /\ sec_unsent' = 0
    /\ sec_spurious' = 0

\* The break never taken.
zero_yield_never(n) == n < 0

\* The break taken on a yield of one as well.
zero_yield_le_one(n) == n <= 1

\* Line 115.
zero_yield(n) == n = 0

\* Lines 115-118: break on a zero yield, else add the yield to the total.
\* num_scraped is not read again before line 114 rebinds it: the model
\* clears it here.
Decide ==
    /\ pc = "decide"
    /\ IF zero_yield(num_scraped)
       THEN /\ NextSection("exhausted")
            /\ UNCHANGED total_products
       ELSE /\ total_products' = total_products + num_scraped
            /\ pc' = "sleep"
            /\ UNCHANGED <<sec, page, section_state, last_end, sechist>>
    /\ num_scraped' = 0
    /\ fetch_ok' = FALSE
    /\ page_cards' = 0
    /\ page_malformed' = 0
    /\ page_writes' = 0
    /\ page_wfail' = FALSE
    /\ UNCHANGED <<products_found, reported, db, now, writes, uphist,
                   paused, dochist, classvars>>

\* range(1, 9).
last_page_off_by_one(p) == p > MaxPage

\* range(1, 8) has no page after p.
last_page(p) == p >= MaxPage

\* The pause left out.
no_pause == paused' = paused

\* Line 119: time.sleep(2).
pause == paused' = TRUE

\* Line 119 and the step of the loop of line 113.
Sleep ==
    /\ pc = "sleep"
    /\ pause
    /\ IF last_page(page)
       THEN NextSection("capped")
       ELSE /\ page' = page + 1
            /\ pc' = "fetch"
            /\ UNCHANGED <<sec, section_state, last_end, sechist>>
    /\ UNCHANGED <<products_found, num_scraped, total_products,
                   reported, db, now, writes, pagehist, uphist,
                   dochist, classvars>>

\* Line 120.
Report ==
    /\ pc = "report"
    /\ reported' = total_products
    /\ pc' = "done"
    /\ UNCHANGED <<sec, page, products_found, num_scraped,
                   total_products, db, now, writes, section_state, last_end>>
    /\ UNCHANGED <<pagehist, sechist, uphist, paused, dochist, classvars>>

Next ==
    \/ FetchFails
    \/ FetchOk
    \/ \E card \in Cards, write_ok \in BOOLEAN : ProcessCard(card, write_ok)
    \/ ReturnPage
    \/ Decide
    \/ Sleep
    \/ Report

\* A run of main().  The store's clock stands still during it: no property
\* of the crawl reads scrapedAt; UpsertSpec below lets the clock advance.
Spec == Init /\ [][Next]_vars

\* main() is one sequential thread: while it has a step to take, it takes it.
FairSpec == Spec /\ WF_vars(Next)

(***************************************************************************)
(* save_product_to_firestore on its own: records of any shape are upserted *)
(* into a store that is empty or holds an earlier document, while the      *)
(* server clock advances.                                                  *)
(***************************************************************************)
\* The record scrape_page builds for the card of product /p1.
RecP1 ==
    Product(ChinoPant, [none |-> FALSE, num |-> 599, scale |-> 1],
            BASE \o <<"/i1.jpg">>, BASE \o <<"/p1">>, "bottoms", "")

\* The same record with its colour filled in.
RecP1Navy == [RecP1 EXCEPT !.color = "navy"]

\* A record that sends a price only.
RecP1Price ==
    [productUrl |-> BASE \o <<"/p1">>,
     price |-> [none |-> FALSE, num |-> 49, scale |-> 0],
     scrapedAt |-> SERVER_TIMESTAMP]

\* The record of another product.
RecP2 ==
    Product(DuffleCoat, [none |-> FALSE, num |-> 1299, scale |-> 0],
            BASE \o <<"/i2.jpg">>, BASE \o <<"/p2">>, "outerwear", "")

Records == {RecP1, RecP1Navy, RecP1Price, RecP2}

InitUpsert ==
    /\ pc = "upsert"
    /\ sec = 1
    /\ page = 1
    /\ products_found = 0
    /\ num_scraped = 0
    /\ total_products = 0
    /\ reported = -1
    /\ db \in {<< >>, InitialStore}
    /\ now = 0
    /\ writes = 0
    /\ section_state = [s \in SUBCATEGORY_URLS |-> "pending"]
    /\ last_end = "none"
    /\ fetch_ok = FALSE
    /\ page_cards = 0
    /\ page_malformed = 0
    /\ page_writes = 0
    /\ page_wfail = FALSE
    /\ sec_fetches = 0
    /\ sec_wfail = FALSE
    /\ sec_unsent = 0
    /\ sec_spurious = 0
    /\ up_prev = << >>
    /\ up_rec = NoRecord
    /\ up_ok = FALSE
    /\ up_time = 0
    /\ up_repeat = FALSE
    /\ last_rec = << >>
    /\ paused = FALSE
    /\ written = {}
    /\ rewritten = FALSE
    /\ cls_name = << >>
    /\ cls_result = ""

crawlvars == <<sec, page, products_found, num_scraped,
               total_products, reported, writes, section_state, last_end,
               paused, written, rewritten>>

\* The record last written into the document of product's URL is product.
Repeats(product) ==
    LET doc_id == md5(product["productUrl"])
    IN  doc_id \in DOMAIN last_rec /\ last_rec[doc_id] = product

\* save_product_to_firestore(product) returns.
Upsert(product) ==
    /\ pc = "upsert"
    /\ db' = save_product_to_firestore(db, product, now)
    /\ up_prev' = db
    /\ up_rec' = <<product>>
    /\ up_ok' = TRUE
    /\ up_time' = now
    /\ up_repeat' = Repeats(product)
    /\ last_rec' = [d \in DOMAIN last_rec \cup {md5(product["productUrl"])} |->
                       IF d = md5(product["productUrl"]) THEN product
                       ELSE last_rec[d]]
    /\ UNCHANGED <<pc, now, crawlvars, pagehist, sechist, classvars>>

\* save_product_to_firestore(product) raises: the store rejects the write
\* or cannot be reached.
UpsertFails(product) ==
    /\ pc = "upsert"
    /\ up_prev' = db
    /\ up_rec' = <<product>>
    /\ up_ok' = FALSE
    /\ up_time' = now
    /\ up_repeat' = Repeats(product)
    /\ UNCHANGED <<pc, db, now, last_rec, crawlvars, pagehist, sechist,
                   classvars>>

\* The server's clock advances.
Tick ==
    /\ pc = "upsert"
    /\ now < MaxTime
    /\ now' = now + 1
    /\ UNCHANGED <<pc, db, crawlvars, pagehist, sechist, uphist, classvars>>

NextUpsert ==
    \/ \E product \in Records : Upsert(product)
    \/ \E product \in Records : UpsertFails(product)
    \/ Tick

UpsertSpec == InitUpsert /\ [][NextUpsert]_vars

(***************************************************************************)
(* map_category on its own: called once on a name of up to MaxWords words, *)
(* in mixed case, with and without keywords of the table.                  *)
(***************************************************************************)
Words == {
    <<"S","h","i","r","t">>,
    <<"O","V","E","R","S","H","I","R","T">>,
    <<"D","u","f","f","l","e">>,
    <<"p","a","n","t">>,
    <<"B","o","o","t">>,
    <<"C","O","A","T">>,
    <<"B","e","l","t">>,
    <<"W","o","o","l"," ">>
}

RECURSIVE Join(_)
Join(ws) == IF ws = << >> THEN << >> ELSE Head(ws) \o Join(Tail(ws))

Names == {Join(ws) : ws \in UNION {[1..k -> Words] : k \in 0..MaxWords}}

InitClassify ==
    /\ pc = "classify"
    /\ sec = 1
    /\ page = 1
    /\ products_found = 0
    /\ num_scraped = 0
    /\ total_products = 0
    /\ reported = -1
    /\ db = InitialStore
    /\ now = 0
    /\ writes = 0
    /\ section_state = [s \in SUBCATEGORY_URLS |-> "pending"]
    /\ last_end = "none"
    /\ fetch_ok = FALSE
    /\ page_cards = 0
    /\ page_malformed = 0
    /\ page_writes = 0
    /\ page_wfail = FALSE
    /\ sec_fetches = 0
    /\ sec_wfail = FALSE
    /\ sec_unsent = 0
    /\ sec_spurious = 0
    /\ up_prev = << >>
    /\ up_rec = NoRecord
    /\ up_ok = FALSE
    /\ up_time = 0
    /\ up_repeat = FALSE
    /\ last_rec = << >>
    /\ paused = FALSE
    /\ written = {}
    /\ rewritten = FALSE
    /\ cls_name \in Names
    /\ cls_result = ""

\* map_category(cls_name) returns.
Classify ==
    /\ pc = "classify"
    /\ cls_result = ""
    /\ cls_result' = map_category(cls_name)
    /\ UNCHANGED <<pc, db, now, crawlvars, pagehist, sechist, uphist, cls_name>>

NextClassify == Classify

ClassifySpec == InitClassify /\ [][NextClassify]_vars

(***************************************************************************)
(* Properties.                                                             *)
(***************************************************************************)
Done(s) == section_state[s] = "done"

\* C1: a page that yields no persisted candidate (no well-formed card, or
\* a failed fetch) ends its section: the decision that follows it leaves
\* the section as exhausted, writes nothing, and moves to page 1 of the
\* next section (or to the report after the last one); a section that is
\* done stays done and no fetch is ever issued for it again.
C1_ZeroYieldEndsSection ==
    /\ [][(pc = "decide" /\ page_writes = 0) =>
            /\ section_state'[sec] = "done"
            /\ last_end' = "exhausted"
            /\ sec' = sec + 1
            /\ page' = 1
            /\ pc' = (IF sec < NumSections THEN "fetch" ELSE "report")
            /\ db' = db
            /\ writes' = writes]_vars
    /\ [][\A s \in SUBCATEGORY_URLS :
            section_state[s] = "done" => section_state'[s] = "done"]_vars
    /\ [](pc \in {"fetch", "cards", "decide", "sleep"} =>
            section_state[sec] # "done")

\* C1 witness: the fetch of page 2 of section 1 has failed after page 1's
\* records were persisted.
C1_Witness ==
    /\ pc = "decide" /\ sec = 1 /\ page = 2 /\ ~fetch_ok
    /\ writes > 0

\* C2: no fetch carries a page number above 7, at most 7 fetches are issued
\* per section, and a section whose 7 pages all yielded is done (capped).
C2_PageCap ==
    /\ page \in 1..7
    /\ sec_fetches \in 0..7
    /\ pc = "fetch" => sec_fetches < 7
    /\ pc \in {"cards", "decide", "sleep"} => sec_fetches = page
    /\ \A s \in SUBCATEGORY_URLS : s < sec => Done(s)

\* C2 witness: section 1 was left after its seventh page yielded products.
C2_Witness ==
    /\ section_state[1] = "done" /\ last_end = "capped"
    /\ sec = 2 /\ pc = "fetch"

\* C3: every run reaches the final state: every section done and the total
\* reported.
C3_RunCompletes ==
    <>(/\ pc = "done"
       /\ \A s \in SUBCATEGORY_URLS : Done(s)
       /\ reported = total_products)

\* C3 witness: the run is over; its last section was crawled to the cap
\* and an earlier section was cut short by a zero-yield page (sections
\* that all reach the cap total at least 7 each).
C3_Witness ==
    /\ pc = "done"
    /\ last_end = "capped"
    /\ reported < 7 * NumSections

\* C4: while no store write of the section fails, a page below the cap
\* with at least one valid card is followed by the fetch of the next page
\* of the section and adds its valid cards to the total; when a page with
\* no product card is then met, as many fetches were issued as the page's
\* number, every valid card of the pages before it was written and nothing
\* else was, and the controller moves to the next section.
C4_SectionCrawl ==
    /\ [][(/\ pc = "decide" /\ fetch_ok /\ ~page_wfail
           /\ page_cards - page_malformed >= 1) =>
            /\ pc' = "sleep"
            /\ sec' = sec /\ page' = page
            /\ total_products' = total_products + (page_cards - page_malformed)
            /\ page_writes = page_cards - page_malformed]_vars
    /\ [][(pc = "sleep" /\ page < 7) =>
            (pc' = "fetch" /\ sec' = sec /\ page' = page + 1)]_vars
    /\ [][(pc = "decide" /\ fetch_ok /\ page_cards = 0) =>
            (sec' = sec + 1 /\ page' = 1 /\ total_products' = total_products)]_vars
    /\ [](pc = "decide" /\ fetch_ok /\ page_cards = 0 /\ ~sec_wfail =>
            /\ sec_fetches = page
            /\ sec_unsent = 0
            /\ sec_spurious = 0)

\* C4 witness: three pages full of valid cards, all written, then an empty
\* fourth page.
C4_Witness ==
    /\ pc = "decide" /\ fetch_ok /\ page_cards = 0 /\ ~sec_wfail
    /\ sec = 1 /\ page = 4 /\ sec_fetches = 4
    /\ writes = 3 * MaxCards /\ total_products = 3 * MaxCards

\* C5 (as claimed): when a store write fails on a page below the cap, the
\* section goes on with the next page.
C5_WriteFailureKeepsSection ==
    [][(pc = "decide" /\ page_wfail /\ page < 7) =>
          (pc' = "sleep" /\ sec' = sec)]_vars

\* C6: with every store write of the page succeeding, a page of k cards of
\* which m are malformed persists and yields exactly k - m, after every
\* card the loop has read and at its return, and scrape_page never raises.
C6_CardIsolation ==
    /\ pc \in {"fetch", "cards", "decide", "sleep", "report", "done"}
    /\ (pc = "cards" /\ ~page_wfail) =>
          /\ products_found + page_malformed = page_cards
          /\ page_writes = products_found
    /\ (pc = "decide" /\ fetch_ok /\ ~page_wfail) =>
          /\ num_scraped = page_cards - page_malformed
          /\ page_writes = page_cards - page_malformed

\* C6 witness: a full page with exactly one malformed card has returned.
C6_Witness ==
    /\ pc = "decide" /\ fetch_ok /\ ~page_wfail
    /\ page_cards = MaxCards /\ page_malformed = 1
    /\ num_scraped = MaxCards - 1

\* C7 (as claimed): every stored record has a non-empty name, productUrl
\* and imageUrl and a parsed price that is not negative.
C7_StoredRecordsValid ==
    \A d \in DOMAIN db :
        /\ Truthy(db[d]["name"])
        /\ Truthy(db[d]["productUrl"])
        /\ Truthy(db[d]["imageUrl"])
        /\ ~db[d]["price"].none
        /\ db[d]["price"].num >= 0

\* C8: the total equals the number of completed store writes: at every
\* point, counting the yield of the page in progress, and in the report.
C8_TotalCountsWrites ==
    /\ writes = total_products + products_found + num_scraped
    /\ pc = "done" => reported = writes

\* C8 witness: the run is over with writes counted, its last section cut
\* short by a zero-yield page.
C8_Witness ==
    /\ pc = "done" /\ reported > 0
    /\ last_end = "exhausted"

\* The stored document without its timestamp.
NonTimestamp(doc) == [f \in DOMAIN doc \ {"scrapedAt"} |-> doc[f]]

UpId == md5(up_rec[1]["productUrl"])

\* C9: the document id is a function of productUrl alone: after a
\* completed upsert exactly one stored document carries the record's URL,
\* the one under the URL's digest; and when the record repeats the last
\* write into that document, no document appears and every field of the
\* document but scrapedAt is as it was.
C9_UpsertIdempotent ==
    (up_rec # NoRecord /\ up_ok) =>
        /\ {d \in DOMAIN db : db[d]["productUrl"] = up_rec[1]["productUrl"]}
             = {UpId}
        /\ up_repeat =>
             /\ DOMAIN db = DOMAIN up_prev
             /\ NonTimestamp(db[UpId]) = NonTimestamp(up_prev[UpId])

\* C9 witness: the same record was written twice in a row into a document,
\* the second time at a later server time.
C9_Witness ==
    /\ up_rec # NoRecord /\ up_ok /\ up_repeat
    /\ db[UpId]["scrapedAt"] > up_prev[UpId]["scrapedAt"]

\* C10: a completed upsert changes one document only, the one under the
\* digest of the record's productUrl; there, the record's fields are
\* stored (scrapedAt as the server's time), and every other field is as
\* before; in particular a colour sent after an empty one is stored, and
\* fields the record does not send are not erased.
C10_UpsertFrame ==
    (up_rec # NoRecord /\ up_ok) =>
        LET sent == Flatten(up_rec[1])
            old  == IF UpId \in DOMAIN up_prev THEN up_prev[UpId] ELSE << >>
        IN  /\ DOMAIN db = DOMAIN up_prev \cup {UpId}
            /\ \A d \in DOMAIN up_prev \ {UpId} : db[d] = up_prev[d]
            /\ DOMAIN db[UpId] = DOMAIN old \cup DOMAIN sent
            /\ \A f \in DOMAIN sent \ {"scrapedAt"} : db[UpId][f] = sent[f]
            /\ "scrapedAt" \in DOMAIN sent => db[UpId]["scrapedAt"] = up_time
            /\ \A f \in DOMAIN old \ DOMAIN sent : db[UpId][f] = old[f]

\* C10 witness: a record with a colour was written over a document whose
\* colour was empty and which held a field the record does not send.
C10_Witness ==
    /\ up_rec = <<RecP1Navy>> /\ up_ok
    /\ UpId \in DOMAIN up_prev
    /\ "color" \in DOMAIN up_prev[UpId]
    /\ up_prev[UpId]["color"] = ""
    /\ db[UpId]["color"] = "navy"
    /\ "likes" \in DOMAIN up_prev[UpId]
    /\ db[UpId]["likes"] = up_prev[UpId]["likes"]

\* C11: the fetches of a run are issued in strictly increasing order of
\* (section, page): a fetch is issued for the controller's position and
\* leaves that position pending no longer; the position only changes on
\* the way to the next fetch (or to the report), to the next page of the
\* section or to page 1 of the next section, the section left being done;
\* when a fetch is due, the pages before it in its section were each
\* fetched once and every earlier section is done; and a failed fetch is
\* followed by the next section, never by the same page.
C11_FetchOrder ==
    /\ [][pc = "fetch" =>
            /\ pc' \in {"cards", "decide"}
            /\ sec' = sec /\ page' = page
            /\ sec_fetches' = sec_fetches + 1]_vars
    /\ [][<<sec', page'>> # <<sec, page>> =>
            /\ pc' \in {"fetch", "report"}
            /\ \/ sec' = sec /\ page' = page + 1 /\ pc' = "fetch"
               \/ sec' = sec + 1 /\ page' = 1 /\ section_state'[sec] = "done"]_vars
    /\ [][(pc # "fetch" /\ pc' = "fetch") => <<sec', page'>> # <<sec, page>>]_vars
    /\ [][(pc = "decide" /\ ~fetch_ok) =>
            (sec' = sec + 1 /\ page' = 1 /\ section_state'[sec] = "done")]_vars
    /\ [](pc = "fetch" =>
            /\ sec_fetches = page - 1
            /\ \A s \in SUBCATEGORY_URLS : s < sec => Done(s))

\* C11 witness: the fetch of page 2 of section 2 has failed, section 1
\* being done.
C11_Witness ==
    /\ pc = "decide" /\ ~fetch_ok
    /\ sec = 2 /\ page = 2 /\ sec_fetches = 2
    /\ Done(1)

\* C12: within a section every fetch after the first is paced: when the
\* fetch of a page n > 1 is due, a pause was taken since the fetch before
\* it; the controller reaches such a fetch only from the pause, on the
\* page after the one just processed; the pause is only taken after a
\* page was processed with a non-zero yield; and every fetch uses up the
\* pause, so that two fetches of a section never share one.
C12_PacedFetches ==
    /\ [](pc = "fetch" /\ page > 1 => paused)
    /\ [](pc \in {"cards", "decide", "sleep"} => ~paused)
    /\ [][(pc' = "fetch" /\ page' > 1 /\ pc # "fetch") =>
            /\ pc = "sleep"
            /\ sec' = sec /\ page' = page + 1
            /\ ~paused /\ paused']_vars
    /\ [][(pc' = "sleep" /\ pc # "sleep") =>
            (pc = "decide" /\ num_scraped > 0 /\ sec' = sec /\ page' = page)]_vars
    /\ [][(~paused /\ paused') => pc = "sleep"]_vars

\* C12 witness: the fetch of page 3 of section 1 is due, after the pause
\* that followed page 2.
C12_Witness ==
    /\ pc = "fetch" /\ sec = 1 /\ page = 3 /\ sec_fetches = 2
    /\ paused /\ total_products >= 2

\* The categories in declaration order.
CategoryOrder == <<"tops", "bottoms", "shoes", "outerwear", "accessories">>

\* The positions in CategoryOrder of the categories of which the lower-cased
\* name contains a keyword.
Matching(name) ==
    {c \in 1..Len(CategoryOrder) :
        \E e \in 1..Len(CATEGORY_KEYWORDS) :
            /\ CATEGORY_KEYWORDS[e].category = CategoryOrder[c]
            /\ \E k \in 1..Len(CATEGORY_KEYWORDS[e].keywords) :
                   Contains(CATEGORY_KEYWORDS[e].keywords[k], lower(name))}

\* C13: map_category returns the category whose keyword the lower-cased
\* name contains when there is exactly one such category, the earliest
\* declared of them when there are several (a name containing 'duffle' is
\* never an accessory, one containing 'overshirt' never outerwear), and
\* 'tops' when there is none or the name is empty.
C13_Classify ==
    cls_result # "" =>
        LET m == Matching(cls_name)
        IN  /\ Cardinality(m) = 1 => \A c \in m : cls_result = CategoryOrder[c]
            /\ Cardinality(m) >= 2 =>
                  \E c \in m : /\ \A d \in m : c <= d
                                /\ cls_result = CategoryOrder[c]
            /\ m = {} => cls_result = "tops"
            /\ cls_name = << >> => cls_result = "tops"
            /\ Contains(<<"d","u","f","f","l","e">>, lower(cls_name)) =>
                  cls_result # "accessories"
            /\ Contains(<<"o","v","e","r","s","h","i","r","t">>, lower(cls_name)) =>
                  cls_result # "outerwear"

\* C13 witness: a name in mixed case with 'duffle' and a keyword of
\* accessories only was classified as outerwear.
C13_Witness ==
    /\ cls_name = <<"D","u","f","f","l","e","B","e","l","t">>
    /\ Matching(cls_name) = {4, 5}
    /\ cls_result = "outerwear"

\* The nine fields of a catalogue record, and their leaf field paths.
NineFields == {"name", "brand", "price", "imageUrl", "productUrl",
               "category", "color", "retailer", "scrapedAt"}

NineLeaves == (NineFields \ {"retailer"}) \cup {"retailer.id", "retailer.name"}

\* C14: every record the crawler builds for a write has the nine fields,
\* color being the empty string; and the document of every product URL
\* written in the run holds the nine fields with an empty color, whatever
\* the document held before, while a document the run did not write is as
\* it was before the run.
C14_RescrapeErasesColor ==
    /\ \A c \in Cards : CardOutcome[c].kind = "save" =>
          /\ DOMAIN CardOutcome[c].product = NineFields
          /\ CardOutcome[c].product["color"] = ""
    /\ \A u \in written :
          /\ md5(u) \in DOMAIN db
          /\ NineLeaves \subseteq DOMAIN db[md5(u)]
          /\ db[md5(u)]["color"] = ""
          /\ db[md5(u)]["productUrl"] = u
    /\ \A d \in DOMAIN db :
          (\A u \in written : md5(u) # d) =>
              (d \in DOMAIN InitialStore /\ db[d] = InitialStore[d])

\* C14 witness: product /p1, stored before the run with the color navy
\* and a field the crawler does not send, was written by the crawler: its
\* color is empty and the other field is kept.
C14_Witness ==
    /\ BASE \o <<"/p1">> \in written
    /\ InitialStore[md5(BASE \o <<"/p1">>)]["color"] = "navy"
    /\ db[md5(BASE \o <<"/p1">>)]["color"] = ""
    /\ db[md5(BASE \o <<"/p1">>)]["likes"] = 3

\* The stored documents of the product URLs written so far in the run.
WrittenDocs == {d \in DOMAIN db : db[d]["productUrl"] \in written}

\* The successful writes counted so far: in the total, in the yield of the
\* page being read and in the yield just returned.
Counted == total_products + products_found + num_scraped

\* C15: every product URL written so far is stored as one document, so
\* the documents written are at most as many as the successful writes
\* counted, and fewer once a URL was written again; at the end of the run
\* they are as many as the reported total exactly when no URL was written
\* more than once.
C15_DocumentsVersusCount ==
    /\ Cardinality(WrittenDocs) = Cardinality(written)
    /\ Cardinality(WrittenDocs) <= Counted
    /\ rewritten => Cardinality(WrittenDocs) < Counted
    /\ pc = "done" =>
          ((Cardinality(WrittenDocs) = reported) <=> ~rewritten)

\* C15 witness: the run is over; one product URL was written twice, is
\* stored once and was counted twice.
C15_Witness ==
    /\ pc = "done" /\ rewritten
    /\ reported = 2
    /\ Cardinality(WrittenDocs) = 1

=============================================================================
